---------------------------- MODULE Spec2Model ----------------------------
(***************************************************************************)
(* Model of the catalog service in src/app/main.py: four request handlers  *)
(* (create_product, list_products, create_order, list_orders_by_user) over *)
(* two MongoDB collections, products and orders.                           *)
(*                                                                         *)
(* Text (identifiers, product names, regex patterns) is a sequence of      *)
(* one-character strings, so that parsing, case folding and matching are   *)
(* computed.  A collection is the sequence of its documents in the store's *)
(* natural order, taken to be insertion order (nothing is ever updated or  *)
(* deleted).  An Optional query parameter is {} (None) or {v}.             *)
(*                                                                         *)
(* The store is assumed reliable: an insert is acknowledged and a query    *)
(* answers, so the "Failed to create" branches (lines 45, 78), which need  *)
(* a falsy inserted_id, are not reachable.                                 *)
(***************************************************************************)
EXTENDS Integers, Sequences, FiniteSets, TLC

VARIABLES
    products,   \* db.products: sequence of product documents
    orders,     \* db.orders: sequence of order documents
    nextOid,    \* the driver's ObjectId generator
    slots,      \* the create_order requests in flight, one per slot
    resp        \* the response completed last

vars == <<products, orders, nextOid, slots, resp>>

---------------------------------------------------------------------------
(* Bounds of the model.                                                    *)

IdLen == 2          \* hex digits of an identifier's text (24 in bson)
FirstOid == 10      \* the first ObjectId the generator hands out
MaxProducts == 2    \* products created in a run of Spec
MaxOrders == 2      \* create_order requests admitted in a run of Spec
MaxItems == 2       \* identifiers in one order payload
MaxExtra == 1       \* documents added beyond a full default page (SpecPaged)
MaxQueryDocs == 3   \* documents per collection in SpecQuery
MaxErrOrders == 1   \* orders persisted in a run of SpecErr

(* Program constants.                                                      *)

DefaultLimit == 10  \* Query(10, ge=1)
DefaultOffset == 0  \* Query(0, ge=0)

---------------------------------------------------------------------------
(* bson.ObjectId and its text form.                                        *)

HexDigits == <<"0", "1", "2", "3", "4", "5", "6", "7", "8", "9",
               "a", "b", "c", "d", "e", "f">>

UpperDigits == <<"0", "1", "2", "3", "4", "5", "6", "7", "8", "9",
                 "A", "B", "C", "D", "E", "F">>

Base == Len(HexDigits)

RECURSIVE Pow(_, _)
Pow(b, e) == IF e = 0 THEN 1 ELSE b * Pow(b, e - 1)

\* The value of one hex digit, either case; -1 when the character is none.
DigitValue(c) ==
    IF \E k \in 1..Base : HexDigits[k] = c \/ UpperDigits[k] = c
    THEN (CHOOSE k \in 1..Base : HexDigits[k] = c \/ UpperDigits[k] = c) - 1
    ELSE -1

\* ObjectId.is_valid on a str: exactly IdLen hex digits of either case.
IsValidObjectId(text) ==
    /\ Len(text) = IdLen
    /\ \A i \in 1..IdLen : DigitValue(text[i]) >= 0

RECURSIVE DigitsValue(_, _)
DigitsValue(text, n) ==
    IF n = 0 THEN 0 ELSE DigitsValue(text, n - 1) * Base + DigitValue(text[n])

\* ObjectId(pid) of a valid text: the value the digits denote.
ObjectId(text) == DigitsValue(text, IdLen)

\* str(oid): IdLen lower-case hex digits.
Str(oid) == [i \in 1..IdLen |-> HexDigits[((oid \div Pow(Base, IdLen - i)) % Base) + 1]]

\* str.upper on an identifier's text (what a client may submit).
Upper(text) == [i \in 1..Len(text) |->
                  IF DigitValue(text[i]) >= 0
                  THEN UpperDigits[DigitValue(text[i]) + 1] ELSE text[i]]

---------------------------------------------------------------------------
(* Responses.                                                              *)

NoTrace == [lookups |-> <<>>, inserted_id |-> {}, raced |-> {}]

Response(op, status, req, body, trace) ==
    [op |-> op, status |-> status, req |-> req, body |-> body, trace |-> trace]

NoResponse == Response("none", 0, <<>>, <<>>, NoTrace)

IdleSlot == [pc |-> "idle", req |-> <<>>, i |-> 0, lookups |-> <<>>, raced |-> {}]

Slots == {1, 2}

---------------------------------------------------------------------------
(* The store.                                                              *)

\* Variant: an _id that is not fresh (the generator's first value again).
StaleObjectId == FirstOid

\* The generated _id of insert_one: the generator's next value.
NewObjectId == nextOid

\* insert_one: the document, with its generated _id, goes last.
InsertOne(coll, doc) == Append(coll, doc)

\* Variant: skip() that starts one document early.
SkipOffByOne(docs, k) ==
    IF k >= Len(docs) THEN <<>> ELSE SubSeq(docs, IF k = 0 THEN 1 ELSE k, Len(docs))

\* cursor.skip(k)
Skip(docs, k) == IF k >= Len(docs) THEN <<>> ELSE SubSeq(docs, k + 1, Len(docs))

\* cursor.limit(n), n >= 1
Limit(docs, n) == IF n >= Len(docs) THEN docs ELSE SubSeq(docs, 1, n)

\* Variant: find_one with a filter that matches every document.
FindOneAnyDoc(coll, oid) == {i \in 1..Len(coll) : TRUE}

\* find_one({"_id": oid}): the documents with that _id (none: falsy).
FindOne(coll, oid) == {i \in 1..Len(coll) : coll[i]._id = oid}

---------------------------------------------------------------------------
(* 1. create_product                                                       *)

ProductDoc(p, oid) ==
    [_id |-> oid, name |-> p.name, description |-> p.description,
     price |-> p.price, size |-> p.size]

CreateProduct(p) ==
    /\ products' = InsertOne(products, ProductDoc(p, NewObjectId))
    /\ nextOid' = nextOid + 1
    /\ resp' = Response("create_product", 201, p, "Product created successfully",
                        [NoTrace EXCEPT !.inserted_id = {NewObjectId}])
    /\ UNCHANGED <<orders, slots>>


---------------------------------------------------------------------------
(* 2. list_products                                                        *)

None == {}
Some(v) == {v}
TheValue(opt) == CHOOSE v \in opt : TRUE

\* Python truthiness of an Optional[str]: None and "" are falsy.
Truthy(opt) == opt # None /\ TheValue(opt) # <<>>

\* Case folding of option "i".
Fold(c) == IF DigitValue(c) >= 0 THEN HexDigits[DigitValue(c) + 1] ELSE c

\* One pattern atom against one character: "." is any character, anything
\* else is itself, case folded (patterns here are built of these two).
AtomMatches(atom, c) == atom = "." \/ Fold(atom) = Fold(c)

\* {"$regex": pat, "$options": "i"}: an unanchored search of pat in text.
RegexSearch(pat, text) ==
    \E start \in 0..(Len(text) - Len(pat)) :
        \A j \in 1..Len(pat) : AtomMatches(pat[j], text[start + j])

\* The query of lines 55-59 applied to one document.
MatchesQuery(doc, name, size) ==
    /\ Truthy(name) => RegexSearch(TheValue(name), doc.name)
    /\ Truthy(size) => doc.size = TheValue(size)

\* db.products.find(query), in the store's order.
FindProducts(name, size) ==
    LET Test(doc) == MatchesQuery(doc, name, size)
    IN SelectSeq(products, Test)

\* obj_id, through response_model ProductOut.
ProductOut(doc) ==
    [id |-> Str(doc._id), name |-> doc.name, description |-> doc.description,
     price |-> doc.price, size |-> doc.size]

ProductQuery(name, size, limit, offset) ==
    [name |-> name, size |-> size, limit |-> limit, offset |-> offset]

ListProducts(name, size, limit, offset) ==
    /\ resp' = LET page == Limit(Skip(FindProducts(name, size), offset), limit)
               IN Response("list_products", 200,
                           ProductQuery(name, size, limit, offset),
                           [i \in 1..Len(page) |-> ProductOut(page[i])], NoTrace)
    /\ UNCHANGED <<products, orders, nextOid, slots>>

---------------------------------------------------------------------------
(* 3. create_order                                                         *)

\* The request is taken up: the handler runs to its first await.
OrderStart(r, o) ==
    /\ slots[r].pc = "idle"
    /\ slots' = [slots EXCEPT ![r] =
                   [pc |-> IF o.products = <<>> THEN "insert" ELSE "lookup",
                    req |-> o, i |-> 1, lookups |-> <<>>, raced |-> {}]]
    /\ UNCHANGED <<products, orders, nextOid, resp>>

OrderTrace(r) == [lookups |-> slots[r].lookups, inserted_id |-> {},
                  raced |-> slots[r].raced]

\* Variant: the lookups of all the identifiers are issued together and the
\* first missing one is reported afterwards.
OrderLookupGathered(r) ==
    LET s == slots[r]
        ps == s.req.products
        valid == \A k \in 1..Len(ps) : IsValidObjectId(ps[k])
        looked == [k \in 1..Len(ps) |-> ObjectId(ps[k])]
        missing == {k \in 1..Len(ps) : \A i \in 1..Len(products) :
                                            products[i]._id # looked[k]}
    IN /\ s.pc = "lookup"
       /\ IF ~valid
          THEN /\ resp' = Response("create_order", 500, s.req,
                                   "Internal Server Error", OrderTrace(r))
               /\ slots' = [slots EXCEPT ![r] = IdleSlot]
          ELSE IF missing # {}
               THEN /\ resp' = Response("create_order", 404, s.req,
                                        ps[CHOOSE k \in missing :
                                             \A m \in missing : k <= m],
                                        [OrderTrace(r) EXCEPT !.lookups = looked])
                    /\ slots' = [slots EXCEPT ![r] = IdleSlot]
               ELSE /\ slots' = [slots EXCEPT ![r] =
                                   [s EXCEPT !.lookups = looked, !.i = Len(ps) + 1,
                                             !.pc = "insert"]]
                    /\ UNCHANGED resp
       /\ UNCHANGED <<products, orders, nextOid>>

\* One turn of the loop of lines 68-70: ObjectId(pid), find_one, the test.
OrderLookup(r) ==
    LET s == slots[r]
        pid == s.req.products[s.i]
    IN /\ s.pc = "lookup"
       /\ IF ~IsValidObjectId(pid)
          THEN \* bson.errors.InvalidId, not an HTTPException
               /\ resp' = Response("create_order", 500, s.req,
                                   "Internal Server Error", OrderTrace(r))
               /\ slots' = [slots EXCEPT ![r] = IdleSlot]
          ELSE LET looked == Append(s.lookups, ObjectId(pid))
               IN IF FindOne(products, ObjectId(pid)) = {}
                  THEN /\ resp' = Response("create_order", 404, s.req, pid,
                                           [OrderTrace(r) EXCEPT !.lookups = looked])
                       /\ slots' = [slots EXCEPT ![r] = IdleSlot]
                  ELSE /\ slots' = [slots EXCEPT ![r] =
                                      [s EXCEPT !.lookups = looked,
                                                !.i = s.i + 1,
                                                !.pc = IF s.i = Len(s.req.products)
                                                       THEN "insert" ELSE "lookup"]]
                       /\ UNCHANGED resp
       /\ UNCHANGED <<products, orders, nextOid>>

\* Variant: the references are stored in reverse order.
OrderDocReversed(o, oid) ==
    [_id |-> oid, user_id |-> o.user_id,
     products |-> [k \in 1..Len(o.products) |->
                     ObjectId(o.products[Len(o.products) + 1 - k])]]

OrderDoc(o, oid) ==
    [_id |-> oid, user_id |-> o.user_id,
     products |-> [k \in 1..Len(o.products) |-> ObjectId(o.products[k])]]

\* Variant: the insert waits until no other request is about to insert.
OrderInsertExclusive(r) ==
    LET s == slots[r]
    IN /\ s.pc = "insert"
       /\ \A q \in Slots \ {r} : slots[q].pc # "insert"
       /\ orders' = InsertOne(orders, OrderDoc(s.req, NewObjectId))
       /\ nextOid' = nextOid + 1
       /\ resp' = Response("create_order", 201, s.req, "Order created successfully",
                           [OrderTrace(r) EXCEPT !.inserted_id = {NewObjectId}])
       /\ slots' = [slots EXCEPT ![r] = IdleSlot]
       /\ UNCHANGED products

\* Variant: the insert does not wait for the lookups still to come.
OrderInsertEarly(r) ==
    LET s == slots[r]
    IN /\ s.pc \in {"lookup", "insert"}
       /\ \A k \in 1..Len(s.req.products) : IsValidObjectId(s.req.products[k])
       /\ orders' = InsertOne(orders, OrderDoc(s.req, NewObjectId))
       /\ nextOid' = nextOid + 1
       /\ resp' = Response("create_order", 201, s.req, "Order created successfully",
                           [OrderTrace(r) EXCEPT !.inserted_id = {NewObjectId}])
       /\ slots' = [slots EXCEPT ![r] = IdleSlot]
       /\ UNCHANGED products

\* Lines 71-77: the order document is built and inserted.  Every other
\* request that has passed its lookups and awaits its own insert notes the
\* identifier inserted meanwhile (raced: history, not program state).
OrderInsert(r) ==
    LET s == slots[r]
    IN /\ s.pc = "insert"
       /\ orders' = InsertOne(orders, OrderDoc(s.req, NewObjectId))
       /\ nextOid' = nextOid + 1
       /\ resp' = Response("create_order", 201, s.req, "Order created successfully",
                           [OrderTrace(r) EXCEPT !.inserted_id = {NewObjectId}])
       /\ slots' = [q \in Slots |->
                      IF q = r THEN IdleSlot
                      ELSE IF slots[q].pc = "insert"
                           THEN [slots[q] EXCEPT !.raced = @ \cup {NewObjectId}]
                           ELSE slots[q]]
       /\ UNCHANGED products

---------------------------------------------------------------------------
(* 4. list_orders_by_user                                                  *)

\* db.orders.find({"user_id": user_id}), in the store's order.
FindOrders(user_id) ==
    LET Test(doc) == doc.user_id = user_id
    IN SelectSeq(orders, Test)

\* obj_id and line 91, through response_model OrderOut.
OrderOut(doc) ==
    [id |-> Str(doc._id), user_id |-> doc.user_id,
     products |-> [k \in 1..Len(doc.products) |-> Str(doc.products[k])]]

OrderQuery(user_id, limit, offset) ==
    [user_id |-> user_id, limit |-> limit, offset |-> offset]

ListOrdersByUser(user_id, limit, offset) ==
    /\ resp' = LET page == Limit(Skip(FindOrders(user_id), offset), limit)
               IN Response("list_orders", 200, OrderQuery(user_id, limit, offset),
                           [i \in 1..Len(page) |-> OrderOut(page[i])], NoTrace)
    /\ UNCHANGED <<products, orders, nextOid, slots>>

---------------------------------------------------------------------------
(* Request inputs.                                                         *)

Product(name, description, price, size) ==
    [name |-> name, description |-> description, price |-> price, size |-> size]

RedShoes == Product(<<"A", "b">>, "red", 5, <<"M">>)
Bed == Product(<<"b", "e">>, "bed", 7, <<"L">>)

\* Identifier texts a client may submit: the first identifier the generator
\* hands out, in both cases, the next one, and a text that is no hex.
T1 == Str(FirstOid)
T2 == Str(FirstOid + 1)
BadId == [i \in 1..IdLen |-> "z"]

SeqsUpTo(S, n) == UNION {[1..k -> S] : k \in 0..n}

OrderPayloads(users, texts, n) ==
    {[user_id |-> u, products |-> ps] : u \in users, ps \in SeqsUpTo(texts, n)}

InFlight == Cardinality({r \in Slots : slots[r].pc # "idle"})

\* A request is taken up by the lowest idle slot (slots are interchangeable).
FreeSlot(r) == slots[r].pc = "idle" /\ \A q \in 1..(r - 1) : slots[q].pc # "idle"

---------------------------------------------------------------------------
(* Spec: the service started on an empty database; two create_order        *)
(* requests may be in flight and interleave at their awaits.               *)

Init ==
    /\ products = <<>>
    /\ orders = <<>>
    /\ nextOid = FirstOid
    /\ slots = [r \in Slots |-> IdleSlot]
    /\ resp = NoResponse

Next ==
    \/ Len(products) < MaxProducts /\ CreateProduct(RedShoes)
    \/ ListProducts(None, None, DefaultLimit, DefaultOffset)
    \/ \E r \in Slots, o \in OrderPayloads({"u1"}, {T1, T2}, MaxItems) :
         /\ Len(orders) + InFlight < MaxOrders
         /\ FreeSlot(r)
         /\ OrderStart(r, o)
    \/ \E r \in Slots : OrderLookup(r)
    \/ \E r \in Slots : OrderInsert(r)
    \/ ListOrdersByUser("u1", DefaultLimit, DefaultOffset)

Spec == Init /\ [][Next]_vars

---------------------------------------------------------------------------
(* SpecErr: the same service, one create_order at a time, with payloads    *)
(* that also carry a text that is no identifier.                           *)

NextErr ==
    \/ Len(products) < MaxProducts /\ CreateProduct(RedShoes)
    \/ ListProducts(None, None, DefaultLimit, DefaultOffset)
    \/ \E r \in Slots, o \in OrderPayloads({"u1"}, {T1, T2, BadId}, MaxItems) :
         /\ Len(orders) < MaxErrOrders
         /\ InFlight = 0
         /\ FreeSlot(r)
         /\ OrderStart(r, o)
    \/ \E r \in Slots : OrderLookup(r)
    \/ \E r \in Slots : OrderInsert(r)
    \/ ListOrdersByUser("u1", DefaultLimit, DefaultOffset)

SpecErr == Init /\ [][NextErr]_vars

---------------------------------------------------------------------------
(* SpecQuery: the two list handlers as functions of the collections and    *)
(* the query parameters.  Init draws the collections: products created     *)
(* from the payloads below, then orders of two users in turn on the first   *)
(* product (on nothing when there is none).                                *)

QueryProducts == {RedShoes, Bed}

NameFilters == {None, Some(<<>>), Some(<<"a">>), Some(<<"B", "e">>),
                Some(<<".">>)}

SizeFilters == {None, Some(<<>>), Some(<<"L">>)}

Limits == {1, 2, DefaultLimit}

Offsets == {0, 1, 2}

InitQuery ==
    \E ps \in SeqsUpTo(QueryProducts, MaxQueryDocs), n \in 0..MaxQueryDocs + 1 :
      LET us == [k \in 1..n |-> IF k % 2 = 1 THEN "u1" ELSE "u2"] IN
        /\ products = [k \in 1..Len(ps) |-> ProductDoc(ps[k], FirstOid + k - 1)]
        /\ orders = [k \in 1..Len(us) |->
                       OrderDoc([user_id |-> us[k],
                                 products |-> IF ps = <<>> THEN <<>> ELSE <<T1>>],
                                FirstOid + Len(ps) + k - 1)]
        /\ nextOid = FirstOid + Len(ps) + Len(us)
        /\ slots = [r \in Slots |-> IdleSlot]
        /\ resp = NoResponse

NextQuery ==
    \/ \E name \in NameFilters, size \in SizeFilters,
          limit \in Limits, offset \in Offsets :
         ListProducts(name, size, limit, offset)
    \/ \E u \in {"u1", "u2"}, limit \in Limits, offset \in Offsets :
         ListOrdersByUser(u, limit, offset)

SpecQuery == InitQuery /\ [][NextQuery]_vars

---------------------------------------------------------------------------
(* SpecPaged: the service on a database that already holds about a default *)
(* page of documents: one create_order at a time, default paging.          *)

PagedSizes == {DefaultLimit - 1, DefaultLimit}

\* Payloads on existing products: two identifiers out of generation order,
\* one of them in upper case, and a single identifier.
PagedOrders ==
    {[user_id |-> u, products |-> ps] :
        u \in {"u1", "u2"}, ps \in {<<T2, Upper(T1)>>, <<T1>>}}

InitPaged ==
    \E np \in PagedSizes, no \in PagedSizes :
        /\ products = [k \in 1..np |-> ProductDoc(RedShoes, FirstOid + k - 1)]
        /\ orders = [k \in 1..no |->
                       OrderDoc([user_id |-> "u1", products |-> <<T1>>],
                                FirstOid + np + k - 1)]
        /\ nextOid = FirstOid + np + no
        /\ slots = [r \in Slots |-> IdleSlot]
        /\ resp = NoResponse

NextPaged ==
    \/ Len(products) < DefaultLimit + MaxExtra /\ CreateProduct(Bed)
    \/ ListProducts(None, None, DefaultLimit, DefaultOffset)
    \/ \E r \in Slots,
          o \in PagedOrders :
         /\ Len(orders) < DefaultLimit + MaxExtra
         /\ InFlight = 0
         /\ FreeSlot(r)
         /\ OrderStart(r, o)
    \/ \E r \in Slots : OrderLookup(r)
    \/ \E r \in Slots : OrderInsert(r)
    \/ \E u \in {"u1", "u2"} : ListOrdersByUser(u, DefaultLimit, DefaultOffset)

SpecPaged == InitPaged /\ [][NextPaged]_vars

---------------------------------------------------------------------------
(* Properties.                                                             *)

ProductIds == {products[i]._id : i \in 1..Len(products)}

\* The text names a document of the products collection.
ExistsPid(pid) == IsValidObjectId(pid) /\ ObjectId(pid) \in ProductIds

\* The step in which the create_order handler of slot r returns.
Completed(r) == slots[r].pc # "idle" /\ slots'[r].pc = "idle"

IsPrefix(s, t) == Len(s) <= Len(t) /\ \A i \in 1..Len(s) : t[i] = s[i]

Min(a, b) == IF a <= b THEN a ELSE b

\* C4: in every reachable state, every product identifier stored in a
\* persisted order is the _id of a document of the products collection.
C4_OrdersReferenceProducts ==
    \A i \in 1..Len(orders) :
        \A k \in 1..Len(orders[i].products) : orders[i].products[k] \in ProductIds

\* An order that references a product is persisted while a request is in flight.
C4_Witness ==
    /\ \E i \in 1..Len(orders) : Len(orders[i].products) >= 1
    /\ InFlight >= 1

\* C9: a create_order in flight can always take its next step, whatever the
\* other request is doing, and a request that another one overtook between
\* its existence check and its insert still ends with 201, its document and
\* the other's both persisted under distinct identifiers.
C9_ConcurrentOrdersBothSucceed ==
    /\ \A r \in Slots :
         slots[r].pc # "idle" => ENABLED (OrderLookup(r) \/ OrderInsert(r))
    /\ (resp.op = "create_order" /\ resp.trace.raced # {}) =>
         /\ resp.status = 201
         /\ \A x \in resp.trace.raced \cup resp.trace.inserted_id :
              Cardinality({i \in 1..Len(orders) : orders[i]._id = x}) = 1
         /\ resp.trace.raced \cap resp.trace.inserted_id = {}

\* Two requests on the same existing product both passed the check before
\* either inserted, and both documents are persisted.
C9_Witness ==
    /\ resp.op = "create_order"
    /\ resp.status = 201
    /\ \E i, j \in 1..Len(orders) :
         /\ i # j
         /\ orders[i]._id \in resp.trace.raced
         /\ orders[j]._id \in resp.trace.inserted_id
         /\ \E k \in 1..Len(orders[i].products), m \in 1..Len(orders[j].products) :
              /\ orders[i].products[k] = orders[j].products[m]
              /\ orders[i].products[k] \in ProductIds

\* C10: no step modifies or removes a persisted document.  A step that
\* completes a list leaves both collections as they are; a step that adds a
\* product adds one, as create_product's response, and leaves orders; a step
\* that adds an order adds one, as the 201 of a create_order whose lookups
\* had all been made, and leaves products.
C10_DocumentsOnlyAppended ==
    [][/\ IsPrefix(products, products')
       /\ IsPrefix(orders, orders')
       /\ Len(products') + Len(orders') <= Len(products) + Len(orders) + 1
       /\ resp'.op \in {"list_products", "list_orders"} =>
            products' = products /\ orders' = orders
       /\ products' # products =>
            /\ orders' = orders
            /\ resp'.op = "create_product"
            /\ resp'.trace.inserted_id = {products'[Len(products')]._id}
       /\ orders' # orders =>
            /\ products' = products
            /\ resp'.op = "create_order" /\ resp'.status = 201
            /\ resp'.trace.inserted_id = {orders'[Len(orders')]._id}
            /\ \E r \in Slots :
                 /\ Completed(r)
                 /\ Len(slots[r].lookups) = Len(slots[r].req.products)
                 /\ orders'[Len(orders')].products = slots[r].lookups
                 /\ \A k \in 1..Len(slots[r].req.products) :
                      slots[r].lookups[k] = ObjectId(slots[r].req.products[k])
      ]_vars

\* An order of two references was added to a collection that held one.
C10_Witness ==
    /\ Len(orders) = 2
    /\ Len(orders[2].products) = 2
    /\ Len(products) >= 1
    /\ resp.op = "create_order"
    /\ resp.trace.inserted_id = {orders[2]._id}

\* C1: a create_order whose products list holds at least one identifier that
\* is not in the products collection returns 404 and persists no order.
C1_MissingProductIsNotFound ==
    [][\A r \in Slots :
         (/\ Completed(r)
          /\ \E k \in 1..Len(slots[r].req.products) :
               ~ExistsPid(slots[r].req.products[k]))
         => (resp'.status = 404 /\ orders' = orders)
      ]_vars

\* C5: a create_order whose products list holds a text that is no identifier
\* is answered with a client error (4xx) and persists no order.
C5_MalformedIdIsClientError ==
    (/\ resp.op = "create_order"
     /\ \E k \in 1..Len(resp.req.products) : ~IsValidObjectId(resp.req.products[k]))
    => (resp.status \in 400..499 /\ resp.trace.inserted_id = {})

\* The first index of the payload whose identifier is not in the collection.
FirstMissing(ps) ==
    CHOOSE k \in 1..Len(ps) :
        ~ExistsPid(ps[k]) /\ \A j \in 1..(k - 1) : ExistsPid(ps[j])

\* C8: the identifiers are looked up one after the other in submission
\* order, and a 404 names the first identifier of the payload that is not
\* in the products collection, the last one that was looked up.
C8_FirstMissingIsReported ==
    [][\A r \in Slots :
         LET ps == slots[r].req.products
             looked == slots'[r].lookups
         IN /\ slots'[r].pc # "idle" =>
                 /\ Len(looked) = slots'[r].i - 1
                 /\ \A j \in 1..Len(looked) : looked[j] = ObjectId(ps[j])
            /\ (Completed(r) /\ resp'.status = 404) =>
                 /\ \E k \in 1..Len(ps) : ~ExistsPid(ps[k])
                 /\ resp'.body = ps[FirstMissing(ps)]
                 /\ Len(resp'.trace.lookups) = FirstMissing(ps)
                 /\ \A j \in 1..FirstMissing(ps) :
                      resp'.trace.lookups[j] = ObjectId(ps[j])
      ]_vars

\* A payload of two different identifiers, neither in the collection, was
\* answered 404 naming the first after one lookup.
C8_Witness ==
    /\ resp.op = "create_order"
    /\ resp.status = 404
    /\ Len(resp.req.products) = 2
    /\ resp.req.products[1] # resp.req.products[2]
    /\ IsValidObjectId(resp.req.products[2])
    /\ ~ExistsPid(resp.req.products[1])
    /\ ~ExistsPid(resp.req.products[2])
    /\ resp.body = resp.req.products[1]
    /\ Len(resp.trace.lookups) = 1

\* A filter is given: the parameter is present and not empty.
Given(opt) == opt # None /\ TheValue(opt) # <<>>

\* text contains part as a substring, letter case aside.
ContainsFolded(text, part) ==
    \E start \in 0..(Len(text) - Len(part)) :
        \A j \in 1..Len(part) : Fold(text[start + j]) = Fold(part[j])

\* The page of a sequence: its entries at positions offset+1 .. offset+limit.
PageOf(docs, limit, offset) ==
    [i \in 1..Min(limit, IF Len(docs) > offset THEN Len(docs) - offset ELSE 0) |->
       docs[offset + i]]

\* C6: list_products with a name filter answers with the page of exactly the
\* products whose name contains the filter text, letter case aside, and
\* whose size equals the size filter when one is given.
C6_NameFilterIsSubstring ==
    (resp.op = "list_products" /\ Given(resp.req.name)) =>
        LET Wanted(doc) ==
                /\ ContainsFolded(doc.name, TheValue(resp.req.name))
                /\ Given(resp.req.size) => doc.size = TheValue(resp.req.size)
            page == PageOf(SelectSeq(products, Wanted), resp.req.limit, resp.req.offset)
        IN /\ resp.status = 200
           /\ resp.body = [i \in 1..Len(page) |-> ProductOut(page[i])]

\* C7: a list answers with at most limit entries, the entries at positions
\* offset+1 .. offset+limit of the documents matching its query in the
\* store's order: list_products over the products matching the filters,
\* list_orders_by_user over the orders of the user.
C7_PageIsSkipThenLimit ==
    /\ resp.op = "list_products" =>
         LET matching == FindProducts(resp.req.name, resp.req.size)
             page == PageOf(matching, resp.req.limit, resp.req.offset)
         IN /\ Len(resp.body) <= resp.req.limit
            /\ resp.body = [i \in 1..Len(page) |-> ProductOut(page[i])]
    /\ resp.op = "list_orders" =>
         LET matching == FindOrders(resp.req.user_id)
             page == PageOf(matching, resp.req.limit, resp.req.offset)
         IN /\ Len(resp.body) <= resp.req.limit
            /\ resp.body = [i \in 1..Len(page) |-> OrderOut(page[i])]

\* Of three matching products the first is skipped and the third cut off.
C7_Witness ==
    /\ resp.op = "list_products"
    /\ resp.status = 200
    /\ resp.req.offset = 1
    /\ resp.req.limit = 1
    /\ Given(resp.req.name)
    /\ Len(FindProducts(resp.req.name, resp.req.size)) = 3
    /\ Len(products) = 3
    /\ resp.body = <<ProductOut(products[2])>>

\* The create_order that has just answered 201 is followed by a
\* list_orders_by_user of its user with the default limit and offset.
OrderThenList ==
    /\ resp.op = "create_order"
    /\ resp.status = 201
    /\ resp'.op = "list_orders"
    /\ resp'.req = OrderQuery(resp.req.user_id, DefaultLimit, DefaultOffset)

OrdersOf(user_id) == {i \in 1..Len(orders) : orders[i].user_id = user_id}

\* C2 as claimed: a create_order whose identifiers all exist answers 201,
\* and the default list of its user that follows holds an order with
\* exactly the submitted texts in submission order, however many orders
\* the user had.
C2_OrderAlwaysListed ==
    [][/\ \A r \in Slots :
            (/\ Completed(r)
             /\ \A k \in 1..Len(slots[r].req.products) :
                  ExistsPid(slots[r].req.products[k]))
            => resp'.status = 201
       /\ OrderThenList =>
            \E i \in 1..Len(resp'.body) :
                /\ resp'.body[i].user_id = resp.req.user_id
                /\ resp'.body[i].products = resp.req.products
      ]_vars

\* C2, amended: a create_order whose identifiers all exist answers 201, and
\* when its user then holds at most DefaultLimit orders, the default list
\* that follows holds the new order: its identifier, its user, and the
\* submitted identifiers in submission order, each in lower case.
C2_OrderListedWithinPage ==
    [][/\ \A r \in Slots :
            (/\ Completed(r)
             /\ \A k \in 1..Len(slots[r].req.products) :
                  ExistsPid(slots[r].req.products[k]))
            => resp'.status = 201
       /\ (OrderThenList /\ Cardinality(OrdersOf(resp.req.user_id)) <= DefaultLimit) =>
            \E i \in 1..Len(resp'.body) :
                /\ {resp'.body[i].id} = {Str(x) : x \in resp.trace.inserted_id}
                /\ resp'.body[i].user_id = resp.req.user_id
                /\ resp'.body[i].products =
                     [k \in 1..Len(resp.req.products) |->
                        [c \in 1..Len(resp.req.products[k]) |->
                           Fold(resp.req.products[k][c])]]
      ]_vars

\* The tenth order of a user, submitted with an upper-case identifier, is
\* the last entry of the user's default page.
C2_Witness ==
    /\ resp.op = "list_orders"
    /\ Len(resp.body) = DefaultLimit
    /\ Cardinality(OrdersOf(resp.req.user_id)) = DefaultLimit
    /\ resp.body[DefaultLimit].products = <<T2, T1>>
    /\ T1 # Upper(T1)

\* The create_product that has just answered 201 is followed by an
\* unfiltered list_products with the default limit and offset.
ProductThenList ==
    /\ resp.op = "create_product"
    /\ resp.status = 201
    /\ resp'.op = "list_products"
    /\ resp'.req = ProductQuery(None, None, DefaultLimit, DefaultOffset)

\* The identifiers, as text, of the products that were there before the last.
PriorIds == {Str(products[j]._id) : j \in 1..(Len(products) - 1)}

\* The list holds exactly one entry whose identifier no prior product had,
\* and that entry carries the fields of the payload.
OneNewEntry(body, p) ==
    /\ Cardinality({i \in 1..Len(body) : body[i].id \notin PriorIds}) = 1
    /\ \A i \in 1..Len(body) :
         body[i].id \notin PriorIds =>
            /\ body[i].name = p.name
            /\ body[i].description = p.description
            /\ body[i].price = p.price
            /\ body[i].size = p.size

\* C3 as claimed: the unfiltered default list that follows a create_product
\* holds exactly one new entry, with the submitted fields and an identifier
\* no prior product had, however many products there were.
C3_ProductAlwaysListed ==
    [][ProductThenList => OneNewEntry(resp'.body, resp.req)]_vars

\* C3, amended: the same, when the collection held fewer than DefaultLimit
\* products before the create_product.
C3_ProductListedWithinPage ==
    [][(ProductThenList /\ Len(products) <= DefaultLimit) =>
          OneNewEntry(resp'.body, resp.req)]_vars

\* The tenth product is the last entry of the default page.
C3_Witness ==
    /\ resp.op = "list_products"
    /\ Len(products) = DefaultLimit
    /\ Len(resp.body) = DefaultLimit
    /\ resp.body[DefaultLimit].name = Bed.name
    /\ resp.body[DefaultLimit].id \notin PriorIds

===========================================================================
